---- MODULE Spec2Model ----
(***************************************************************************)
(* Model of the two Streamlit utilities of gdp-dashboard:                  *)
(*   streamlit_app.py   "Marketing Tactic Detector"                        *)
(*   pages /1_app.py    "Marketing-Tactic Classifier"                      *)
(*                                                                         *)
(* Python strings are sequences of one-character strings.  A Python dict   *)
(* is a sequence of <<key, value>> pairs in insertion order.  A Python set *)
(* is a TLA+ set; where the code iterates over a set, the iteration order  *)
(* is an input (a sequence enumerating the set).                           *)
(***************************************************************************)
EXTENDS Integers, Sequences, FiniteSets, TLC

VARIABLES
    \* ---- classification of one value (detect_tactics, classify)
    text,            \* the cell value handed to the classifier
    dictionaries,    \* the dictionary, in iteration order
    results,         \* what detect_tactics returned
    tactics,         \* what classify returned
    pc,              \* which function has been applied
    \* ---- classification of a table (process_data, "Run classifier")
    df,              \* the table, as the caller sees it
    df_in,           \* the table as it was handed in
    statement_column,\* the chosen text column
    outcome,         \* what process_data did
    \* ---- the dictionary editors
    area_text,       \* contents of a sidebar text area (streamlit_app.py)
    dict_json,       \* contents of the JSON editor (pages /1_app.py)
    source,          \* the dictionary an editor text was written from
    parsed,          \* what reading the editor text gave
    \* ---- a browser session of streamlit_app.py
    default_dictionaries,  \* the module's DEFAULT_DICTIONARIES
    session_dictionaries,  \* st.session_state.dictionaries
    widgets,               \* the two keyed text areas, as the session has them
    widget_identity,       \* what Streamlit takes a keyed widget's identity from
    last_event,            \* what the user did last
    \* ---- a browser session of pages /1_app.py
    uploaded_file,   \* the CSV in the uploader, or none
    text_col,        \* the column picked in the form
    json_editor,     \* the JSON text area, as the session has it
    run_result,      \* how far the last run got and what it computed
    applied_json,    \* the editor text "Apply changes" was last clicked on
    last_click       \* what the user did last

vars == <<text, dictionaries, results, tactics, pc,
          df, df_in, statement_column, outcome,
          area_text, dict_json, source, parsed,
          default_dictionaries, session_dictionaries, widgets,
          widget_identity, last_event,
          uploaded_file, text_col, json_editor, run_result, applied_json,
          last_click>>

classifyVars == <<text, results, tactics>>
tableVars == <<df, df_in, statement_column, outcome>>
editorVars == <<area_text, dict_json, source, parsed>>
appVars == <<default_dictionaries, session_dictionaries, widgets,
             widget_identity, last_event>>
pageVars == <<uploaded_file, text_col, json_editor, run_result, applied_json,
              last_click>>

(***************************************************************************)
(* Bounds of the model.                                                    *)
(***************************************************************************)
MaxTextLen == 3
MaxTerms == 2
MaxRows == 2
MaxAreaLen == 4
MaxElems == 2

(***************************************************************************)
(* Python values and strings.                                              *)
(***************************************************************************)
RECURSIVE StringsUpTo(_, _)
StringsUpTo(chars, n) ==
    IF n = 0 THEN {<<>>}
    ELSE LET shorter == StringsUpTo(chars, n - 1)
         IN  shorter \cup {Append(s, c) : s \in shorter, c \in chars}

Range(s) == {s[i] : i \in 1..Len(s)}

\* The sequences of at most n distinct elements of S.
RECURSIVE NoDupSeqs(_, _)
NoDupSeqs(S, n) ==
    IF n = 0 THEN {<<>>}
    ELSE LET shorter == NoDupSeqs(S, n - 1)
         IN  shorter \cup
             UNION {{Append(s, x) : x \in S \ Range(s)} : s \in shorter}

\* The orders in which a set can be iterated.
Orders(S) == {s \in NoDupSeqs(S, Cardinality(S)) : Range(s) = S}

Str(s) == [kind |-> "str", s |-> s]
NaN == [kind |-> "nan", s |-> <<>>]
None == [kind |-> "none", s |-> <<>>]
Num == [kind |-> "num", s |-> <<>>]

isinstance_str(x) == x.kind = "str"
isna(x) == x.kind \in {"nan", "none"}

LowerChar(c) ==
    CASE c = "A" -> "a"
      [] c = "B" -> "b"
      [] OTHER -> c

lower(s) == [i \in 1..Len(s) |-> LowerChar(s[i])]

\* A matcher that looks only at the start of the text.
contains_at_start(s, t) == Len(t) <= Len(s) /\ SubSeq(s, 1, Len(t)) = t

\* Python's `t in s` for strings.
contains(s, t) ==
    \E i \in 0..(Len(s) - Len(t)) : SubSeq(s, i + 1, i + Len(t)) = t

\* d[k] = v on a dict with string keys (a function on its keys).
SetItem(d, k, v) == [x \in (DOMAIN d) \cup {k} |-> IF x = k THEN v ELSE d[x]]

\* What a call did: returned a value, or raised.
Return(v) == [raised |-> "", value |-> v]
Raise(e) == [raised |-> e, value |-> <<>>]

\* str.lower(); a float, None or a number has no such method.
py_lower(x) ==
    IF isinstance_str(x) THEN Return(lower(x.s)) ELSE Raise("AttributeError")

(***************************************************************************)
(* streamlit_app.py: detect_tactics                                        *)
(***************************************************************************)
EmptyResults ==
    [urgency_marketing |-> 0, exclusive_marketing |-> 0, matched_terms |-> <<>>]

\* A scan that reports a phrase only the first time it is found.
RECURSIVE ScanTermsDedup(_, _, _, _)
ScanTermsDedup(tactic, terms, text_lower, res) ==
    IF terms = <<>> THEN res
    ELSE LET term == Head(terms)
             hit == contains(text_lower, term)
             flagged == SetItem(res, tactic, 1)
             seen == \E i \in 1..Len(res["matched_terms"]) :
                        res["matched_terms"][i] = term
             res1 == IF hit /\ ~seen
                     THEN [flagged EXCEPT
                              !["matched_terms"] = Append(@, term)]
                     ELSE IF hit THEN flagged ELSE res
         IN  ScanTermsDedup(tactic, Tail(terms), text_lower, res1)

\* for term in terms: if term in text_lower: ...
RECURSIVE ScanTerms(_, _, _, _)
ScanTerms(tactic, terms, text_lower, res) ==
    IF terms = <<>> THEN res
    ELSE LET term == Head(terms)
             hit == contains(text_lower, term)
             flagged == SetItem(res, tactic, 1)
             res1 == IF hit
                     THEN [flagged EXCEPT
                              !["matched_terms"] = Append(@, term)]
                     ELSE res
         IN  ScanTerms(tactic, Tail(terms), text_lower, res1)

\* for tactic, terms in dictionaries.items(): ...
RECURSIVE ScanItems(_, _, _)
ScanItems(items, text_lower, res) ==
    IF items = <<>> THEN res
    ELSE ScanItems(Tail(items), text_lower,
                   ScanTerms(Head(items)[1], Head(items)[2], text_lower, res))

\* detect_tactics guarding only against missing values.
detect_tactics_isna_only(x, dicts) ==
    IF isna(x) THEN Return(EmptyResults)
    ELSE LET text_lower == py_lower(x)
         IN  IF text_lower.raised # "" THEN text_lower
             ELSE Return(ScanItems(dicts, text_lower.value, EmptyResults))

detect_tactics(x, dicts) ==
    IF isna(x) \/ ~isinstance_str(x) THEN Return(EmptyResults)
    ELSE LET text_lower == py_lower(x)
         IN  IF text_lower.raised # "" THEN text_lower
             ELSE Return(ScanItems(dicts, text_lower.value, EmptyResults))

(***************************************************************************)
(* pages /1_app.py: classify                                               *)
(***************************************************************************)
any_term_in(terms, s) == \E i \in 1..Len(terms) : contains(s, terms[i])

RECURSIVE CatsWithHit(_, _)
CatsWithHit(items, s) ==
    IF items = <<>> THEN <<>>
    ELSE LET rest == CatsWithHit(Tail(items), s)
         IN  IF any_term_in(Head(items)[2], s)
             THEN <<Head(items)[1]>> \o rest
             ELSE rest

classify(x, dicts) ==
    IF ~isinstance_str(x) THEN Return(<<>>)
    ELSE LET lowered == py_lower(x)
         IN  IF lowered.raised # "" THEN lowered
             ELSE Return(CatsWithHit(dicts, lowered.value))

(***************************************************************************)
(* Classification of one value: the inputs and the two calls.              *)
(***************************************************************************)
TextChars == {"a", "b", "A"}
Texts == StringsUpTo(TextChars, MaxTextLen)

\* A one-letter phrase, a phrase of two letters and a phrase that is not
\* lowercase.
TermPool == {<<"a">>, <<"a", "b">>, <<"A">>}

Values == {Str(s) : s \in Texts} \cup {NaN, None, Num}

\* The two categories of DEFAULT_DICTIONARIES, each with its phrases in the
\* order the set is iterated.
TermOrders == NoDupSeqs(TermPool, MaxTerms)
Dicts == {<< <<"urgency_marketing", u>>, <<"exclusive_marketing", e>> >> :
             u \in TermOrders, e \in TermOrders}

NotCalled == Raise("not called")
NoTable == [columns |-> <<>>, rows |-> <<>>]

TableIdle ==
    /\ df = NoTable
    /\ df_in = NoTable
    /\ statement_column = ""
    /\ outcome = NotCalled

NoObject == [id |-> "none", items |-> <<>>]

PageIdle ==
    /\ uploaded_file = NoTable
    /\ text_col = ""
    /\ json_editor = <<>>
    /\ run_result = <<>>
    /\ applied_json = <<>>
    /\ last_click = ""

AppIdle ==
    /\ default_dictionaries = NoObject
    /\ session_dictionaries = NoObject
    /\ widgets = <<>>
    /\ widget_identity = ""
    /\ last_event = ""

EditorIdle ==
    /\ area_text = <<>>
    /\ dict_json = <<>>
    /\ source = <<>>
    /\ parsed = NotCalled

ClassifyIdle ==
    /\ text = None
    /\ results = NotCalled
    /\ tactics = NotCalled

InitClassify ==
    /\ PageIdle
    /\ AppIdle
    /\ TableIdle
    /\ EditorIdle
    /\ text \in Values
    /\ dictionaries \in Dicts
    /\ results = NotCalled
    /\ tactics = NotCalled
    /\ pc = "input"

CallDetectTactics ==
    /\ pc = "input"
    /\ results' = detect_tactics(text, dictionaries)
    /\ pc' = "detected"
    /\ UNCHANGED <<text, dictionaries, tactics, tableVars, editorVars,
                   appVars, pageVars>>

CallClassify ==
    /\ pc = "input"
    /\ tactics' = classify(text, dictionaries)
    /\ pc' = "classified"
    /\ UNCHANGED <<text, dictionaries, results, tableVars, editorVars,
                   appVars, pageVars>>

NextClassify == CallDetectTactics \/ CallClassify

SpecClassify == InitClassify /\ [][NextClassify]_vars

(***************************************************************************)
(* Properties of the classification of one value.                          *)
(***************************************************************************)
\* t occurs in s: s is some prefix, then t, then some suffix.
OccursIn(t, s) ==
    \E n \in 0..Len(s) :
        /\ n + Len(t) <= Len(s)
        /\ \A k \in 1..Len(t) : s[n + k] = t[k]

SomePhraseOccurs(terms, s) == \E t \in Range(terms) : OccursIn(t, lower(s))

\* C1: for a string text, a category is detected (flag 1 in detect_tactics,
\* listed by classify) iff one of its phrases occurs anywhere in the
\* lowercased text, and is not detected (flag 0, not listed) otherwise.
C1_DetectedIffPhraseOccurs ==
    /\ (pc = "detected" /\ isinstance_str(text)) =>
           /\ results.raised = ""
           /\ \A i \in 1..Len(dictionaries) :
                  results.value[dictionaries[i][1]] =
                      IF SomePhraseOccurs(dictionaries[i][2], text.s)
                      THEN 1 ELSE 0
    /\ (pc = "classified" /\ isinstance_str(text)) =>
           /\ tactics.raised = ""
           /\ \A i \in 1..Len(dictionaries) :
                  (dictionaries[i][1] \in Range(tactics.value)) <=>
                      SomePhraseOccurs(dictionaries[i][2], text.s)

\* A phrase found in the middle of an uppercase-bearing text flags its
\* category, while the other category, whose only phrase is not lowercase,
\* stays unflagged.
C1_Witness ==
    /\ pc = "detected"
    /\ text = Str(<<"b", "A", "b">>)
    /\ dictionaries = << <<"urgency_marketing", << <<"a">> >> >>,
                         <<"exclusive_marketing", << <<"A">> >> >> >>
    /\ results.value["urgency_marketing"] = 1
    /\ results.value["exclusive_marketing"] = 0

\* Every phrase of the dictionary, category by category, in iteration order.
RECURSIVE AllTerms(_)
AllTerms(items) ==
    IF items = <<>> THEN <<>> ELSE Head(items)[2] \o AllTerms(Tail(items))

FoundIn(s, terms) == SelectSeq(terms, LAMBDA t : OccursIn(t, lower(s)))

\* C2: the matched-terms list of detect_tactics is the dictionary's phrases,
\* in iteration order, that occur in the lowercased text: one entry per
\* (category, phrase) pair, nothing deduplicated, nothing else.
C2_MatchedTermsAreTheFoundPairs ==
    (pc = "detected" /\ isinstance_str(text)) =>
        /\ results.raised = ""
        /\ results.value["matched_terms"] =
               FoundIn(text.s, AllTerms(dictionaries))

\* A phrase held by both categories and found in the text is listed twice.
C2_Witness ==
    /\ pc = "detected"
    /\ isinstance_str(text)
    /\ results.raised = ""
    /\ \E i, j \in 1..Len(results.value["matched_terms"]) :
           /\ i < j
           /\ results.value["matched_terms"][i] =
                  results.value["matched_terms"][j]

\* C6: a value that is not a string (NaN, None, a number) is classified
\* without an error, to the empty result.
C6_NonStringGivesEmptyResult ==
    /\ (pc = "detected" /\ ~isinstance_str(text)) =>
           results = Return(EmptyResults)
    /\ (pc = "classified" /\ ~isinstance_str(text)) =>
           tactics = Return(<<>>)

\* A number classified against a dictionary that has phrases.
C6_Witness ==
    /\ pc = "detected"
    /\ text = Num
    /\ dictionaries[1][2] # <<>>
    /\ results = Return(EmptyResults)

(***************************************************************************)
(* Tables (pandas DataFrames): an ordered list of column names and an      *)
(* ordered list of rows, each row a function from the columns to cells.    *)
(***************************************************************************)
IntCell(n) == [kind |-> "int", s |-> <<>>, n |-> n]
ListCell(v) == [kind |-> "list", s |-> <<>>, v |-> v]

\* df[col]: the column's cells in row order, or KeyError.
getitem(t, col) ==
    IF col \in Range(t.columns)
    THEN Return([i \in 1..Len(t.rows) |-> t.rows[i][col]])
    ELSE Raise("KeyError")

\* df[col] = values: the column is replaced where it stands, or appended.
setitem(t, col, values) ==
    [columns |-> IF col \in Range(t.columns) THEN t.columns
                 ELSE Append(t.columns, col),
     rows |-> [i \in 1..Len(t.rows) |-> SetItem(t.rows[i], col, values[i])]]

\* ', '.join(strings)
RECURSIVE join_comma(_)
join_comma(strings) ==
    IF strings = <<>> THEN <<>>
    ELSE IF Len(strings) = 1 THEN strings[1]
    ELSE strings[1] \o <<",", " ">> \o join_comma(Tail(strings))

\* What a call of process_data gives: the exception or the returned table,
\* the number of rows classified, and the caller's table afterwards.
Processed(raised, value, calls, t) ==
    [raised |-> raised, value |-> value, calls |-> calls, df |-> t]

\* process_data that skips the rows whose text is missing.
process_data_dropna(t, col, dicts) ==
    LET column == getitem(t, col)
    IN  IF column.raised # "" THEN Processed(column.raised, <<>>, 0, t)
        ELSE
        LET kept == SelectSeq(t.rows, LAMBDA r : ~isna(r[col]))
            t2 == [columns |-> t.columns, rows |-> kept]
            detections == [i \in 1..Len(kept) |->
                              detect_tactics(kept[i][col], dicts).value]
            t3 == setitem(t2, "urgency_detected",
                     [i \in 1..Len(kept) |->
                         IntCell(detections[i]["urgency_marketing"])])
            t4 == setitem(t3, "exclusive_detected",
                     [i \in 1..Len(kept) |->
                         IntCell(detections[i]["exclusive_marketing"])])
            t5 == setitem(t4, "matched_terms",
                     [i \in 1..Len(kept) |->
                         Str(join_comma(detections[i]["matched_terms"]))])
        IN  Processed("", t5, Len(kept), t)

\* process_data that classifies whatever it finds and lets a missing column
\* read as missing text.
process_data_lenient(t, col, dicts) ==
    LET cells == [i \in 1..Len(t.rows) |->
                     IF col \in Range(t.columns) THEN t.rows[i][col] ELSE NaN]
        detections == [i \in 1..Len(cells) |->
                          detect_tactics(cells[i], dicts).value]
        t3 == setitem(t, "urgency_detected",
                 [i \in 1..Len(cells) |->
                     IntCell(detections[i]["urgency_marketing"])])
        t4 == setitem(t3, "exclusive_detected",
                 [i \in 1..Len(cells) |->
                     IntCell(detections[i]["exclusive_marketing"])])
        t5 == setitem(t4, "matched_terms",
                 [i \in 1..Len(cells) |->
                     Str(join_comma(detections[i]["matched_terms"]))])
    IN  Processed("", t5, Len(cells), t)

\* streamlit_app.py: process_data
process_data(t, col, dicts) ==
    LET column == getitem(t, col)
    IN  IF column.raised # "" THEN Processed(column.raised, <<>>, 0, t)
        ELSE
        LET cells == column.value
            calls == [i \in 1..Len(cells) |-> detect_tactics(cells[i], dicts)]
            failed == {i \in 1..Len(cells) : calls[i].raised # ""}
        IN  IF failed # {}
            THEN LET first == CHOOSE i \in failed : \A j \in failed : i <= j
                 IN  Processed(calls[first].raised, <<>>, first, t)
            ELSE
            LET detections == [i \in 1..Len(cells) |-> calls[i].value]
                df_result == t
                t3 == setitem(df_result, "urgency_detected",
                         [i \in 1..Len(cells) |->
                             IntCell(detections[i]["urgency_marketing"])])
                t4 == setitem(t3, "exclusive_detected",
                         [i \in 1..Len(cells) |->
                             IntCell(detections[i]["exclusive_marketing"])])
                t5 == setitem(t4, "matched_terms",
                         [i \in 1..Len(cells) |->
                             Str(join_comma(detections[i]["matched_terms"]))])
            IN  Processed("", t5, Len(cells), t)

\* pages /1_app.py, "Run classifier":
\*     df["tactics"] = df[text_col].apply(lambda x: classify(x, dictionaries))
\* The caller's table itself gets the column.
run_classifier(t, col, dicts) ==
    LET column == getitem(t, col)
    IN  IF column.raised # "" THEN Processed(column.raised, <<>>, 0, t)
        ELSE
        LET cells == column.value
            calls == [i \in 1..Len(cells) |-> classify(cells[i], dicts)]
            failed == {i \in 1..Len(cells) : calls[i].raised # ""}
        IN  IF failed # {}
            THEN LET first == CHOOSE i \in failed : \A j \in failed : i <= j
                 IN  Processed(calls[first].raised, <<>>, first, t)
            ELSE
            LET t2 == setitem(t, "tactics",
                         [i \in 1..Len(cells) |-> ListCell(calls[i].value)])
            IN  Processed("", t2, Len(cells), t2)

(***************************************************************************)
(* Classification of a table: the inputs and the two calls.                *)
(***************************************************************************)
\* Column layouts of the uploaded CSV.  A file may already hold a column
\* named like one the classifier writes.
ColumnLayouts ==
    {<<"Statement">>, <<"id", "Statement">>,
     <<"Statement", "matched_terms">>, <<"tactics", "Statement">>}

ColumnNames == {"Statement", "id", "matched_terms", "tactics"}

CellValues == {Str(<<"a">>), Str(<<"A", "b">>), NaN}

RowsOf(columns) == [Range(columns) -> CellValues]

RECURSIVE RowSeqs(_, _)
RowSeqs(columns, n) ==
    IF n = 0 THEN {<<>>}
    ELSE LET shorter == RowSeqs(columns, n - 1)
         IN  shorter \cup {Append(rs, r) : rs \in shorter, r \in RowsOf(columns)}

Tables ==
    UNION {{[columns |-> c, rows |-> rs] : rs \in RowSeqs(c, MaxRows)} :
              c \in ColumnLayouts}

\* A dictionary whose two categories share a phrase, and one with an empty
\* category.
TableDicts ==
    {<< <<"urgency_marketing", << <<"a">>, <<"a", "b">> >> >>,
        <<"exclusive_marketing", << <<"a">> >> >> >>,
     << <<"urgency_marketing", << <<"a", "b">> >> >>,
        <<"exclusive_marketing", <<>> >> >>}

InitTable ==
    /\ PageIdle
    /\ AppIdle
    /\ ClassifyIdle
    /\ EditorIdle
    /\ df_in \in Tables
    /\ df = df_in
    /\ statement_column \in ColumnNames
    /\ dictionaries \in TableDicts
    /\ outcome = NotCalled
    /\ pc = "input"

CallProcessData ==
    /\ pc = "input"
    /\ outcome' = process_data(df, statement_column, dictionaries)
    /\ df' = outcome'.df
    /\ pc' = "processed"
    /\ UNCHANGED <<classifyVars, dictionaries, df_in, statement_column,
                   editorVars, appVars, pageVars>>

\* The handler is reached only with a column picked from the table's own.
CallRunClassifier ==
    /\ pc = "input"
    /\ statement_column \in Range(df.columns)
    /\ outcome' = run_classifier(df, statement_column, dictionaries)
    /\ df' = outcome'.df
    /\ pc' = "classified_table"
    /\ UNCHANGED <<classifyVars, dictionaries, df_in, statement_column,
                   editorVars, appVars, pageVars>>

NextTable == CallProcessData \/ CallRunClassifier

SpecTable == InitTable /\ [][NextTable]_vars

(***************************************************************************)
(* Properties of the classification of a table.                            *)
(***************************************************************************)
\* C5: with a text column the table does not have, process_data raises
\* (KeyError, from df[statement_column]) before any row is classified,
\* returns no table, and leaves the caller's table as it was.
C5_MissingColumnFailsEagerly ==
    (pc = "processed" /\ statement_column \notin Range(df_in.columns)) =>
        /\ outcome.raised = "KeyError"
        /\ outcome.calls = 0
        /\ outcome.value = <<>>
        /\ df = df_in

\* A table with two rows processed on a column it does not have.
C5_Witness ==
    /\ pc = "processed"
    /\ statement_column \notin Range(df_in.columns)
    /\ Len(df_in.rows) >= 2
    /\ outcome.raised = "KeyError"

\* The columns process_data writes, and the one "Run classifier" writes.
ProcessDataColumns == {"urgency_detected", "exclusive_detected", "matched_terms"}
RunClassifierColumns == {"tactics"}

\* Row i of the output holds the classification of row i of the input.
ProcessDataRowClassified(i) ==
    LET d == detect_tactics(df_in.rows[i][statement_column], dictionaries).value
        r == outcome.value.rows[i]
    IN  /\ r["urgency_detected"] = IntCell(d["urgency_marketing"])
        /\ r["exclusive_detected"] = IntCell(d["exclusive_marketing"])
        /\ r["matched_terms"] = Str(join_comma(d["matched_terms"]))

RunClassifierRowClassified(i) ==
    df.rows[i]["tactics"] =
        ListCell(classify(df_in.rows[i][statement_column], dictionaries).value)

\* Row i of table t holds the input's row i in every column of `kept`.
CarriesInputRow(t, i, kept) ==
    \A c \in kept : c \in DOMAIN t.rows[i] /\ t.rows[i][c] = df_in.rows[i][c]

\* C7 as stated: process_data returns the input's rows, one for one and in
\* order, each with all of its original values plus its own classification.
C7_RowsCarriedWithAllOriginalValues ==
    (pc = "processed" /\ statement_column \in Range(df_in.columns)) =>
        /\ outcome.raised = ""
        /\ Len(outcome.value.rows) = Len(df_in.rows)
        /\ \A i \in 1..Len(df_in.rows) :
               /\ CarriesInputRow(outcome.value, i, Range(df_in.columns))
               /\ ProcessDataRowClassified(i)

\* C7 (amended): process_data returns the input's rows, one for one and in
\* order, each with its original values in every column but the three that
\* process_data writes (overwritten when the input already has them), plus
\* its own classification; the input table is not changed.  "Run classifier"
\* does the same in place, writing the column "tactics".
C7_RowsCarriedOneToOne ==
    /\ (pc = "processed" /\ statement_column \in Range(df_in.columns)) =>
           /\ outcome.raised = ""
           /\ Len(outcome.value.rows) = Len(df_in.rows)
           /\ df = df_in
           /\ \A i \in 1..Len(df_in.rows) :
                  /\ CarriesInputRow(outcome.value, i,
                         Range(df_in.columns) \ ProcessDataColumns)
                  /\ ProcessDataRowClassified(i)
    /\ pc = "classified_table" =>
           /\ outcome.raised = ""
           /\ Len(df.rows) = Len(df_in.rows)
           /\ \A i \in 1..Len(df_in.rows) :
                  /\ CarriesInputRow(df, i,
                         Range(df_in.columns) \ RunClassifierColumns)
                  /\ RunClassifierRowClassified(i)

\* Two rows, the first with missing text and the second with a text that
\* matches: the output keeps them in that order, unflagged then flagged.
C7_Witness ==
    /\ pc = "processed"
    /\ df_in.columns = <<"id", "Statement">>
    /\ statement_column = "Statement"
    /\ Len(df_in.rows) = 2
    /\ df_in.rows[1]["Statement"] = NaN
    /\ df_in.rows[2]["Statement"] = Str(<<"A", "b">>)
    /\ outcome.raised = ""
    /\ outcome.value.rows[1]["urgency_detected"] = IntCell(0)
    /\ outcome.value.rows[2]["urgency_detected"] = IntCell(1)
    /\ outcome.value.rows[2]["id"] = df_in.rows[2]["id"]

(***************************************************************************)
(* streamlit_app.py, lines 86-108: the two sidebar text areas.             *)
(***************************************************************************)
IsSpace(c) == c \in {" ", "\n", "\t"}

\* str.strip()
RECURSIVE lstrip(_)
lstrip(s) ==
    IF s # <<>> /\ IsSpace(Head(s)) THEN lstrip(Tail(s)) ELSE s

RECURSIVE rstrip(_)
rstrip(s) ==
    IF s # <<>> /\ IsSpace(s[Len(s)]) THEN rstrip(SubSeq(s, 1, Len(s) - 1))
    ELSE s

strip(s) == rstrip(lstrip(s))

\* A strip that forgets the right-hand side.
strip_left_only(s) == lstrip(s)

\* str.split('\n'): the pieces between line breaks, empty ones included.
RECURSIVE split_lines(_)
split_lines(s) ==
    IF \A i \in 1..Len(s) : s[i] # "\n" THEN <<s>>
    ELSE LET k == CHOOSE i \in 1..Len(s) :
                      s[i] = "\n" /\ \A j \in 1..(i - 1) : s[j] # "\n"
         IN  <<SubSeq(s, 1, k - 1)>> \o split_lines(SubSeq(s, k + 1, Len(s)))

\* '\n'.join(terms), the terms in the order the set is iterated.
RECURSIVE join_lines(_)
join_lines(terms) ==
    IF terms = <<>> THEN <<>>
    ELSE IF Len(terms) = 1 THEN terms[1]
    ELSE terms[1] \o <<"\n">> \o join_lines(Tail(terms))

\* The normalisation of one line, kept apart from the filter as in the code.
normalize_term(term) == lower(strip(term))

\* A parse that keeps the author's casing.
parse_terms_keep_case(contents) ==
    {strip(term) : term \in {t \in Range(split_lines(contents)) :
                                 strip(t) # <<>>}}

\* A parse that breaks the text at blanks as well as at line breaks.
parse_terms_split_blanks(contents) ==
    LET blanks_as_breaks ==
            [i \in 1..Len(contents) |->
                IF contents[i] = " " THEN "\n" ELSE contents[i]]
    IN  {normalize_term(term) :
            term \in {t \in Range(split_lines(blanks_as_breaks)) :
                         strip(t) # <<>>}}

\* set(term.strip().lower() for term in text.split('\n') if term.strip())
parse_terms(contents) ==
    {normalize_term(term) :
        term \in {t \in Range(split_lines(contents)) : strip(t) # <<>>}}

(***************************************************************************)
(* pages /1_app.py, lines 63-83: the JSON dictionary editor.               *)
(*                                                                         *)
(* A JSON text is its sequence of tokens; a string token carries its       *)
(* lexeme, the characters between the quotes, escapes included.            *)
(***************************************************************************)
Tok(t) == [t |-> t, lex |-> <<>>]
StrTok(lex) == [t |-> "str", lex |-> lex]

DictVal(items) == [kind |-> "dict", s |-> <<>>, v |-> items]

\* json.dumps of one character of a string (ensure_ascii=False).
EscapeChar(c) ==
    CASE c = "\"" -> <<"\\", "\"">>
      [] c = "\\" -> <<"\\", "\\">>
      [] c = "\n" -> <<"\\", "n">>
      [] c = "\t" -> <<"\\", "t">>
      [] OTHER -> <<c>>

RECURSIVE encode_string(_)
encode_string(s) ==
    IF s = <<>> THEN <<>> ELSE EscapeChar(Head(s)) \o encode_string(Tail(s))

\* json.loads of a string lexeme: escapes are undone; a raw control
\* character, a raw quote or an unknown escape is a decode error.
RECURSIVE decode_string(_)
decode_string(lex) ==
    IF lex = <<>> THEN Return(<<>>)
    ELSE IF Head(lex) = "\\"
    THEN IF Len(lex) < 2 \/ lex[2] \notin {"\"", "\\", "n", "t"}
         THEN Raise("JSONDecodeError")
         ELSE LET c == CASE lex[2] = "n" -> "\n"
                         [] lex[2] = "t" -> "\t"
                         [] OTHER -> lex[2]
                  rest == decode_string(SubSeq(lex, 3, Len(lex)))
              IN  IF rest.raised # "" THEN rest
                  ELSE Return(<<c>> \o rest.value)
    ELSE IF Head(lex) \in {"\n", "\t", "\""} THEN Raise("JSONDecodeError")
    ELSE LET rest == decode_string(Tail(lex))
         IN  IF rest.raised # "" THEN rest
             ELSE Return(<<Head(lex)>> \o rest.value)

\* json.dumps(value): indentation is white space between tokens.
RECURSIVE json_dumps(_), dumps_elements(_), dumps_members(_)
json_dumps(v) ==
    CASE v.kind = "str" -> <<StrTok(encode_string(v.s))>>
      [] v.kind = "num" -> <<Tok("num")>>
      [] v.kind = "none" -> <<Tok("null")>>
      [] v.kind = "list" -> <<Tok("[")>> \o dumps_elements(v.v) \o <<Tok("]")>>
      [] v.kind = "dict" -> <<Tok("{")>> \o dumps_members(v.v) \o <<Tok("}")>>

dumps_elements(vs) ==
    IF vs = <<>> THEN <<>>
    ELSE IF Len(vs) = 1 THEN json_dumps(vs[1])
    ELSE json_dumps(vs[1]) \o <<Tok(",")>> \o dumps_elements(Tail(vs))

dumps_members(items) ==
    IF items = <<>> THEN <<>>
    ELSE LET one == <<StrTok(encode_string(items[1][1])), Tok(":")>>
                        \o json_dumps(items[1][2])
         IN  IF Len(items) = 1 THEN one
             ELSE one \o <<Tok(",")>> \o dumps_members(Tail(items))

\* d[k] = v while a JSON object is read: a repeated key keeps its place and
\* takes the later value.
dict_put(items, k, v) ==
    IF \E i \in 1..Len(items) : items[i][1] = k
    THEN [i \in 1..Len(items) |->
             IF items[i][1] = k THEN <<k, v>> ELSE items[i]]
    ELSE Append(items, <<k, v>>)

Parsed(v, next) == [ok |-> TRUE, v |-> v, next |-> next]
ParseFail == [ok |-> FALSE, v |-> None, next |-> 0]

TokAt(toks, i) == IF i \in 1..Len(toks) THEN toks[i].t ELSE "eof"

\* The recursive-descent reading of one JSON value starting at token i.
RECURSIVE ParseValue(_, _), ParseElements(_, _, _), ParseMembers(_, _, _)
ParseValue(toks, i) ==
    LET t == TokAt(toks, i)
    IN  CASE t = "str" ->
                 LET d == decode_string(toks[i].lex)
                 IN  IF d.raised # "" THEN ParseFail
                     ELSE Parsed(Str(d.value), i + 1)
          [] t = "num" -> Parsed(Num, i + 1)
          [] t = "null" -> Parsed(None, i + 1)
          [] t = "[" ->
                 IF TokAt(toks, i + 1) = "]" THEN Parsed(ListCell(<<>>), i + 2)
                 ELSE ParseElements(toks, i + 1, <<>>)
          [] t = "{" ->
                 IF TokAt(toks, i + 1) = "}" THEN Parsed(DictVal(<<>>), i + 2)
                 ELSE ParseMembers(toks, i + 1, <<>>)
          [] OTHER -> ParseFail

ParseElements(toks, i, acc) ==
    LET e == ParseValue(toks, i)
    IN  IF ~e.ok THEN ParseFail
        ELSE CASE TokAt(toks, e.next) = "," ->
                      ParseElements(toks, e.next + 1, Append(acc, e.v))
               [] TokAt(toks, e.next) = "]" ->
                      Parsed(ListCell(Append(acc, e.v)), e.next + 1)
               [] OTHER -> ParseFail

ParseMembers(toks, i, acc) ==
    IF TokAt(toks, i) # "str" \/ TokAt(toks, i + 1) # ":" THEN ParseFail
    ELSE LET k == decode_string(toks[i].lex)
             e == ParseValue(toks, i + 2)
         IN  IF k.raised # "" \/ ~e.ok THEN ParseFail
             ELSE CASE TokAt(toks, e.next) = "," ->
                           ParseMembers(toks, e.next + 1,
                                        dict_put(acc, k.value, e.v))
                    [] TokAt(toks, e.next) = "}" ->
                           Parsed(DictVal(dict_put(acc, k.value, e.v)),
                                  e.next + 1)
                    [] OTHER -> ParseFail

\* json.loads(text): one value and nothing after it, or JSONDecodeError (a
\* ValueError).
json_loads(toks) ==
    LET r == ParseValue(toks, 1)
    IN  IF r.ok /\ r.next = Len(toks) + 1 THEN Return(r.v)
        ELSE Raise("ValueError")

\* set(v): the elements of a list (TypeError when one is unhashable), the
\* characters of a string, the keys of a dict; TypeError for a number or
\* None, which cannot be iterated.
py_set(v) ==
    CASE v.kind = "list" ->
             IF \E i \in 1..Len(v.v) : v.v[i].kind \in {"list", "dict"}
             THEN Raise("TypeError")
             ELSE Return(Range(v.v))
      [] v.kind = "str" -> Return({Str(<<v.s[i]>>) : i \in 1..Len(v.s)})
      [] v.kind = "dict" -> Return({Str(v.v[i][1]) : i \in 1..Len(v.v)})
      [] OTHER -> Raise("TypeError")

\* What a click on "Apply changes" ends in: the dictionaries, the reported
\* parse error (st.error, st.stop), or an exception nobody catches.
Applied(how, raised, dicts) ==
    [outcome |-> how, raised |-> raised, dictionaries |-> dicts]

\* Lines 74-81.
apply_changes(json_text) ==
    LET user_dict == json_loads(json_text)
    IN  IF user_dict.raised = "ValueError"
        THEN Applied("invalid_json", "", <<>>)
        ELSE IF user_dict.value.kind # "dict"
        THEN Applied("unhandled", "AttributeError", <<>>)
        ELSE
        LET items == user_dict.value.v
            sets == [i \in 1..Len(items) |-> py_set(items[i][2])]
        IN  IF \E i \in 1..Len(items) : sets[i].raised = "TypeError"
            THEN Applied("invalid_json", "", <<>>)
            ELSE Applied("updated", "",
                         [i \in 1..Len(items) |->
                             <<items[i][1], sets[i].value>>])

(***************************************************************************)
(* The dictionary editors: texts a user can type, dictionaries the editor  *)
(* text is written from, and the steps that write and read it.             *)
(***************************************************************************)
AreaChars == {"a", "A", " ", "\n"}
AreaTexts == StringsUpTo(AreaChars, MaxAreaLen)

CatKey(name) == <<name>>
UrgencyKey == CatKey("urgency_marketing")
ExclusiveKey == CatKey("exclusive_marketing")

\* JSON documents a user can type: objects, and values that are no object.
JsonScalars == {Str(<<"a">>), Str(<<" ", "A">>), Num, None}
JsonElements == JsonScalars \cup {ListCell(<<>>)}
JsonLists == {ListCell(es) : es \in StringsUpTo(JsonElements, MaxElems)}
JsonMemberValues ==
    JsonScalars \cup JsonLists \cup {DictVal(<< <<<<"a">>, Num>> >>)}
JsonObjects ==
    {DictVal(<<>>)}
    \cup {DictVal(<< <<UrgencyKey, v>> >>) : v \in JsonMemberValues}
    \cup {DictVal(<< <<UrgencyKey, v>>,
                     <<ExclusiveKey, ListCell(<<Str(<<"a">>)>>)>> >>) :
             v \in JsonMemberValues}
JsonDocuments == JsonObjects \cup JsonLists \cup JsonScalars

RemoveAt(toks, k) == SubSeq(toks, 1, k - 1) \o SubSeq(toks, k + 1, Len(toks))

\* The documents as json.dumps writes them, the same with one token deleted,
\* the empty text, and a phrase typed with a raw line break or a stray
\* backslash inside its quotes.
JsonSources ==
    {json_dumps(d) : d \in JsonDocuments}
    \cup UNION {{RemoveAt(json_dumps(d), k) : k \in 1..Len(json_dumps(d))} :
                   d \in JsonDocuments}
    \cup {<<>>}
    \cup {<<Tok("{"), StrTok(UrgencyKey), Tok(":"), Tok("["),
            StrTok(lex), Tok("]"), Tok("}")>> :
             lex \in {<<"a", "\n">>, <<"\\", "a">>, <<"a", "\\", "n", "b">>}}

\* A phrase as the spec wants it: trimmed, not empty, lowercase.
IsNormalizedPhrase(p) ==
    /\ p # <<>>
    /\ ~IsSpace(p[1])
    /\ ~IsSpace(p[Len(p)])
    /\ \A i \in 1..Len(p) : p[i] \notin {"A", "B"}

\* The phrases a session dictionary of streamlit_app.py can hold: normalized
\* and, having come out of split('\n'), without a line break.
AreaPhrases ==
    {p \in AreaTexts : IsNormalizedPhrase(p) /\ "\n" \notin Range(p)}

RECURSIVE SubsetsUpTo(_, _)
SubsetsUpTo(S, n) ==
    IF n = 0 THEN {{}}
    ELSE LET smaller == SubsetsUpTo(S, n - 1)
         IN  smaller \cup {T \cup {x} : T \in smaller, x \in S}

AreaTermSets == SubsetsUpTo(AreaPhrases, MaxTerms)

\* Normalized dictionaries for the JSON editor; a phrase may hold a blank, a
\* quote or a line break inside.
JsonPhrasePool ==
    {Str(<<"a">>), Str(<<"a", " ", "b">>), Str(<<"b", "\"", "\n", "a">>)}

JsonDicts ==
    {<<>>}
    \cup {<< <<ExclusiveKey, e>> >> : e \in SUBSET JsonPhrasePool}
    \cup {<< <<UrgencyKey, u>>, <<ExclusiveKey, e>> >> :
             u \in SUBSET JsonPhrasePool, e \in SUBSET JsonPhrasePool}

\* Code points, in order.
CharOrder == <<"\t", "\n", " ", "\"", "A", "B", "\\", "a", "b", "n", "t">>
CharRank(c) == CHOOSE i \in 1..Len(CharOrder) : CharOrder[i] = c

\* Python's ordering of strings.
RECURSIVE str_less(_, _)
str_less(x, y) ==
    IF y = <<>> THEN FALSE
    ELSE IF x = <<>> THEN TRUE
    ELSE IF Head(x) = Head(y) THEN str_less(Tail(x), Tail(y))
    ELSE CharRank(Head(x)) < CharRank(Head(y))

\* sorted(list(v)) for a set of strings.
sorted_list(S) ==
    CHOOSE seq \in Orders(S) :
        \A i, j \in 1..Len(seq) : i < j => str_less(seq[i].s, seq[j].s)

\* {k: sorted(list(v)) for k, v in D.items()}
sorted_lists(d) ==
    DictVal([i \in 1..Len(d) |-> <<d[i][1], ListCell(sorted_list(d[i][2]))>>])

InitEditors ==
    /\ PageIdle
    /\ AppIdle
    /\ ClassifyIdle
    /\ TableIdle
    /\ dictionaries = <<>>
    /\ parsed = NotCalled
    /\ \/ pc = "typed_area" /\ area_text \in AreaTexts
          /\ dict_json = <<>> /\ source = <<>>
       \/ pc = "typed_json" /\ dict_json \in JsonSources
          /\ area_text = <<>> /\ source = <<>>
       \/ pc = "dict_area" /\ source \in AreaTermSets
          /\ area_text = <<>> /\ dict_json = <<>>
       \/ pc = "dict_json" /\ source \in JsonDicts
          /\ area_text = <<>> /\ dict_json = <<>>

\* Lines 103-105 (and 106-108): a category's phrases are read off its area.
ParseTextArea ==
    /\ pc \in {"typed_area", "shown_area"}
    /\ parsed' = parse_terms(area_text)
    /\ pc' = IF pc = "typed_area" THEN "parsed_area" ELSE "reparsed_area"
    /\ UNCHANGED <<classifyVars, tableVars, appVars, pageVars, dictionaries,
                   area_text, dict_json, source>>

\* Lines 87-92: the area shows the category's phrases, one per line, in the
\* order the set is iterated.
ShowTextArea ==
    /\ pc = "dict_area"
    /\ \E order \in Orders(source) : area_text' = join_lines(order)
    /\ pc' = "shown_area"
    /\ UNCHANGED <<classifyVars, tableVars, appVars, pageVars, dictionaries,
                   dict_json, source, parsed>>

\* Lines 73-81: "Apply changes".
ApplyChanges ==
    /\ pc \in {"typed_json", "shown_json"}
    /\ parsed' = apply_changes(dict_json)
    /\ pc' = IF pc = "typed_json" THEN "applied" ELSE "reapplied"
    /\ UNCHANGED <<classifyVars, tableVars, appVars, pageVars, dictionaries,
                   area_text, dict_json, source>>

\* Lines 63-71: the editor shows the dictionary as JSON.
ShowJson ==
    /\ pc = "dict_json"
    /\ dict_json' = json_dumps(sorted_lists(source))
    /\ pc' = "shown_json"
    /\ UNCHANGED <<classifyVars, tableVars, appVars, pageVars, dictionaries,
                   area_text, source, parsed>>

NextEditors == ParseTextArea \/ ShowTextArea \/ ApplyChanges \/ ShowJson

SpecEditors == InitEditors /\ [][NextEditors]_vars

(***************************************************************************)
(* Properties of the dictionary editors.                                   *)
(***************************************************************************)
\* C3: every phrase of a dictionary built from user text (a sidebar text
\* area, the JSON editor) is trimmed, not empty and lowercase.
C3_BuiltPhrasesAreNormalized ==
    /\ pc = "parsed_area" => \A p \in parsed : IsNormalizedPhrase(p)
    /\ (pc = "applied" /\ parsed.outcome = "updated") =>
           \A i \in 1..Len(parsed.dictionaries) :
               \A p \in parsed.dictionaries[i][2] :
                   p.kind = "str" /\ IsNormalizedPhrase(p.s)

\* The same for the sidebar text areas alone, where it holds.
C3_AreaPhrasesAreNormalized ==
    pc = "parsed_area" => \A p \in parsed : IsNormalizedPhrase(p)

\* A source is well formed when it is a JSON object whose values are lists of
\* strings.
WellFormedSource(toks) ==
    LET r == json_loads(toks)
    IN  /\ r.raised = ""
        /\ r.value.kind = "dict"
        /\ \A i \in 1..Len(r.value.v) :
               /\ r.value.v[i][2].kind = "list"
               /\ \A j \in 1..Len(r.value.v[i][2].v) :
                      r.value.v[i][2].v[j].kind = "str"

\* C4: a source that is not well formed always ends in the reported parse
\* error: no dictionary, no other exception.
C4_IllFormedSourceIsParseError ==
    (pc = "applied" /\ ~WellFormedSource(dict_json)) =>
        parsed.outcome = "invalid_json"

\* Equality of two dicts: the same keys with the same values.
DictItems(d) == {d[i] : i \in 1..Len(d)}

DEFAULT_DICTIONARIES ==
    [id |-> "DEFAULT",
     items |-> [urgency_marketing |-> {<<"a">>, <<"a", " ", "a">>},
                exclusive_marketing |-> {<<"a", "a">>}]]

\* dict.copy(): another dict object holding the same values.
dict_copy(obj) == [id |-> "copy", items |-> obj.items]

NoWidget == [exists |-> FALSE, value_arg |-> <<>>, contents |-> <<>>]

\* The script is executed anew for a run: DEFAULT_DICTIONARIES is built
\* again, and a session value that was the old module's object is no longer
\* the new one.
load_module(r) ==
    [r EXCEPT !.defaults = DEFAULT_DICTIONARIES,
              !.session = IF @.id = "DEFAULT"
                          THEN [@ EXCEPT !.id = "DEFAULT of an earlier run"]
                          ELSE @]

\* Lines 82-83.
init_session(r) ==
    IF r.session = NoObject
    THEN [r EXCEPT !.session = dict_copy(r.defaults)]
    ELSE r

\* st.sidebar.text_area(..., value=value, key=...): the contents the session
\* has for the widget, or `value` for a widget the session does not have.
\* Streamlit takes a widget to be the one of the run before by its key alone
\* in some releases and by its key and arguments (so a new `value` makes a
\* new widget) in others.
text_area(w, value, identity) ==
    IF w.exists /\ (identity = "key" \/ w.value_arg = value) THEN w
    ELSE [exists |-> TRUE, value_arg |-> value, contents |-> value]

\* st.session_state.dictionaries[k] = v: the dict object is changed, under
\* every name it has.
assign_key(r, k, v) ==
    [r EXCEPT !.session.items[k] = v,
              !.defaults.items[k] =
                  IF r.defaults.id = r.session.id THEN v ELSE @]

\* The session dictionaries at lines 87-100, where the areas are drawn.
at_areas(r) == init_session(load_module(r)).session.items

\* One run of main() down to line 113; the rest of the script draws the
\* page.  urgency_order and exclusive_order are the orders in which the two
\* sets are iterated by '\n'.join.
main(r, identity, reset_clicked, urgency_order, exclusive_order) ==
    LET r1 == init_session(load_module(r))
        urgency_area == text_area(r1.widgets.urgency_terms,
                                  join_lines(urgency_order), identity)
        exclusive_area == text_area(r1.widgets.exclusive_terms,
                                    join_lines(exclusive_order), identity)
        r2 == [r1 EXCEPT !.widgets = [urgency_terms |-> urgency_area,
                                      exclusive_terms |-> exclusive_area]]
        r3 == assign_key(r2, "urgency_marketing",
                         parse_terms(urgency_area.contents))
        r4 == assign_key(r3, "exclusive_marketing",
                         parse_terms(exclusive_area.contents))
    IN  IF reset_clicked
        THEN [r4 EXCEPT !.session = dict_copy(r4.defaults)]
        ELSE r4

AppState ==
    [defaults |-> default_dictionaries, session |-> session_dictionaries,
     widgets |-> widgets]

SetAppState(r) ==
    /\ default_dictionaries' = r.defaults
    /\ session_dictionaries' = r.session
    /\ widgets' = r.widgets

\* What a user types into an area: nothing, a phrase, two phrases, a phrase
\* in capitals with blanks around it, the default urgency phrases.
EditTexts ==
    {<<>>, <<"a">>, <<"a", "a", "\n", "a">>, <<" ", "A", "\n">>,
     <<"a", " ", "a", "\n", "a">>}

InitApp ==
    /\ PageIdle
    /\ ClassifyIdle
    /\ TableIdle
    /\ EditorIdle
    /\ dictionaries = <<>>
    /\ pc = "closed"
    /\ default_dictionaries = NoObject
    /\ session_dictionaries = NoObject
    /\ widgets = [urgency_terms |-> NoWidget, exclusive_terms |-> NoWidget]
    /\ widget_identity \in {"key", "arguments"}
    /\ last_event = "none"

\* A run that no click on the reset button started.
PlainRun(r) ==
    \E uo \in Orders(at_areas(r)["urgency_marketing"]),
       eo \in Orders(at_areas(r)["exclusive_marketing"]) :
        SetAppState(main(r, widget_identity, FALSE, uo, eo))

\* The page is opened: the first run.
OpenPage ==
    /\ pc = "closed"
    /\ PlainRun(AppState)
    /\ pc' = "open"
    /\ last_event' = "open"
    /\ UNCHANGED <<classifyVars, tableVars, editorVars, pageVars,
                   dictionaries, widget_identity>>

\* The user replaces the contents of a text area; the script runs.
EditArea ==
    /\ pc = "open"
    /\ \E k \in {"urgency_terms", "exclusive_terms"}, t \in EditTexts :
           PlainRun([AppState EXCEPT !.widgets[k].contents = t])
    /\ last_event' = "edit"
    /\ UNCHANGED <<classifyVars, tableVars, editorVars, pageVars,
                   dictionaries, pc, widget_identity>>

\* Any other interaction (the uploader, the column box, "Analyze"): the
\* script runs.
OtherInteraction ==
    /\ pc = "open"
    /\ PlainRun(AppState)
    /\ last_event' = "other"
    /\ UNCHANGED <<classifyVars, tableVars, editorVars, pageVars,
                   dictionaries, pc, widget_identity>>

\* "Reset to Defaults": the run that sees the click (lines 111-113), then
\* the run st.rerun() starts, in which the button reads False.
ClickReset ==
    /\ pc = "open"
    /\ \E uo \in Orders(at_areas(AppState)["urgency_marketing"]),
          eo \in Orders(at_areas(AppState)["exclusive_marketing"]) :
           PlainRun(main(AppState, widget_identity, TRUE, uo, eo))
    /\ last_event' = "reset"
    /\ UNCHANGED <<classifyVars, tableVars, editorVars, pageVars,
                   dictionaries, pc, widget_identity>>

NextApp == OpenPage \/ EditArea \/ OtherInteraction \/ ClickReset

SpecApp == InitApp /\ [][NextApp]_vars

(***************************************************************************)
(* Properties of the session.                                              *)
(***************************************************************************)
\* C9: once the rerun started by "Reset to Defaults" has completed, the
\* session dictionaries are the defaults, and DEFAULT_DICTIONARIES has its
\* initial value.
C9_ResetRestoresDefaults ==
    last_event = "reset" =>
        /\ session_dictionaries.items = DEFAULT_DICTIONARIES.items
        /\ default_dictionaries = DEFAULT_DICTIONARIES

\* The part of C9 that holds: no run changes DEFAULT_DICTIONARIES.
C9_DefaultsNeverMutated ==
    pc = "open" => default_dictionaries = DEFAULT_DICTIONARIES

(***************************************************************************)
(* pages /1_app.py: a browser session.  Every interaction runs the script  *)
(* from the top; a button reads True only in the run its click started.    *)
(***************************************************************************)
\* Lines 10-23, with a few short phrases; a dict of sets of strings, in the
\* shape line 77 builds.
PAGE_DEFAULT_DICTIONARIES ==
    << <<UrgencyKey, {Str(<<"a">>), Str(<<"a", " ", "b">>)}>>,
       <<ExclusiveKey, {Str(<<"b">>)}>> >>

\* Lines 65-69: the text the editor starts with.
default_json == json_dumps(sorted_lists(PAGE_DEFAULT_DICTIONARIES))

\* Line 54: the column the box starts on.
default_column(t) ==
    IF "Statement" \in Range(t.columns) THEN "Statement" ELSE t.columns[1]

\* dictionaries.items() with each set in one order of iteration; classify
\* asks only whether any phrase of a category matches.
iterable(d) ==
    [i \in 1..Len(d) |->
        <<d[i][1][1],
          CHOOSE seq \in Orders({p.s : p \in d[i][2]}) : TRUE>>]

\* Line 88.  `t in text` with a phrase that is no string raises TypeError
\* once the scan of a string cell comes to it.
classify_table(t, col, d) ==
    IF /\ \E i \in 1..Len(d) : \E p \in d[i][2] : p.kind # "str"
       /\ \E i \in 1..Len(t.rows) : isinstance_str(t.rows[i][col])
    THEN Processed("TypeError", <<>>, 0, t)
    ELSE run_classifier(t, col, iterable(d))

RunResult(reached, raised, dicts, classified) ==
    [reached |-> reached, raised |-> raised, dictionaries |-> dicts,
     classified |-> classified]

\* Lines 89-97 once "Run classifier" reads True: the table with its
\* "tactics" column, or the exception line 88 raised.
classified_section(drawn, bound, c) ==
    IF c.raised # ""
    THEN [result |-> RunResult("exception", c.raised, bound, NoTable),
          editor |-> drawn]
    ELSE [result |-> RunResult("classified", "", bound, c.df),
          editor |-> drawn]

\* Lines 87-97 with `dictionaries` bound.
run_section(file, col, drawn, bound, run_clicked) ==
    IF ~run_clicked
    THEN [result |-> RunResult("editor", "", bound, NoTable), editor |-> drawn]
    ELSE classified_section(drawn, bound, classify_table(file, col, bound))

\* Lines 73-81 once "Apply changes" reads True.
apply_section(file, col, drawn, applied, run_clicked) ==
    IF applied.outcome = "invalid_json"
    THEN [result |-> RunResult("invalid_json", "", <<>>, NoTable),
          editor |-> drawn]
    ELSE IF applied.outcome = "unhandled"
    THEN [result |-> RunResult("exception", applied.raised, <<>>, NoTable),
          editor |-> drawn]
    ELSE run_section(file, col, drawn, applied.dictionaries, run_clicked)

\* Lines 73-97 with the editor drawn; line 83 binds the defaults when
\* "Apply changes" reads False.
editor_section(file, col, drawn, apply_clicked, run_clicked) ==
    IF apply_clicked
    THEN apply_section(file, col, drawn, apply_changes(drawn.contents),
                       run_clicked)
    ELSE run_section(file, col, drawn, PAGE_DEFAULT_DICTIONARIES, run_clicked)

\* One run of the script.  It gives how far the run got, the dictionaries
\* it bound, the table with its "tactics" column when it classified, and the
\* editor as the session keeps it (a widget a run does not draw is dropped).
page_script(file, col, editor, submitted_col, apply_clicked, run_clicked) ==
    IF file = NoTable
    THEN [result |-> RunResult("info", "", <<>>, NoTable), editor |-> NoWidget]
    ELSE IF ~submitted_col
    THEN [result |-> RunResult("form", "", <<>>, NoTable), editor |-> NoWidget]
    ELSE editor_section(file, col,
                        text_area(editor, default_json, "arguments"),
                        apply_clicked, run_clicked)

\* CSV files a user uploads.
PageTables ==
    {[columns |-> <<"Statement">>,
      rows |-> << [Statement |-> Str(<<"a">>)] >>],
     [columns |-> <<"id", "Statement">>,
      rows |-> << [id |-> Str(<<"a">>), Statement |-> Str(<<"A", "b">>)],
                  [id |-> Str(<<"b">>), Statement |-> NaN] >>],
     [columns |-> <<"id", "tactics">>,
      rows |-> << [id |-> Num, tactics |-> Str(<<"b">>)] >>],
     [columns |-> <<"Statement", "id">>, rows |-> <<>>]}

\* Texts a user leaves in the JSON editor: a dictionary of their own, the
\* same with its closing brace missing, and a list.
custom_json ==
    json_dumps(sorted_lists(<< <<UrgencyKey, {Str(<<"b">>)}>> >>))

PageEditTexts ==
    {custom_json, RemoveAt(custom_json, Len(custom_json)),
     json_dumps(ListCell(<<>>))}

InitPage ==
    /\ ClassifyIdle
    /\ TableIdle
    /\ EditorIdle
    /\ AppIdle
    /\ dictionaries = <<>>
    /\ pc = "page"
    /\ uploaded_file = NoTable
    /\ text_col = ""
    /\ json_editor = NoWidget
    /\ run_result = RunResult("info", "", <<>>, NoTable)
    /\ applied_json = <<>>
    /\ last_click = "none"

RunPage(file, col, editor, submitted_col, apply_clicked, run_clicked) ==
    \E r \in {page_script(file, col, editor,
                          submitted_col, apply_clicked, run_clicked)} :
        /\ run_result' = r.result
        /\ json_editor' = r.editor

Drawn(button) ==
    \/ button = "form" /\ run_result.reached # "info"
    \/ button = "editor" /\ json_editor.exists

\* A CSV is put into the uploader.
Upload ==
    /\ \E t \in PageTables :
           /\ uploaded_file' = t
           /\ text_col' = default_column(t)
           /\ RunPage(t, default_column(t), json_editor, FALSE, FALSE, FALSE)
    /\ last_click' = "upload"
    /\ UNCHANGED <<classifyVars, tableVars, editorVars, appVars,
                   dictionaries, pc, applied_json>>

\* A column is picked and "Confirm column" is clicked.
ClickConfirm ==
    /\ Drawn("form")
    /\ \E c \in Range(uploaded_file.columns) :
           /\ text_col' = c
           /\ RunPage(uploaded_file, c, json_editor, TRUE, FALSE, FALSE)
    /\ last_click' = "confirm"
    /\ UNCHANGED <<classifyVars, tableVars, editorVars, appVars,
                   dictionaries, pc, uploaded_file, applied_json>>

\* The JSON text is replaced; leaving the text area runs the script.
EditJson ==
    /\ Drawn("editor")
    /\ \E t \in PageEditTexts :
           RunPage(uploaded_file, text_col,
                   [json_editor EXCEPT !.contents = t], FALSE, FALSE, FALSE)
    /\ last_click' = "edit"
    /\ UNCHANGED <<classifyVars, tableVars, editorVars, appVars,
                   dictionaries, pc, uploaded_file, text_col, applied_json>>

\* The JSON text is replaced and "Apply changes" is clicked straight away:
\* the click's run sees the new text.
ClickApply ==
    /\ Drawn("editor")
    /\ \E t \in PageEditTexts \cup {json_editor.contents} :
           /\ applied_json' = t
           /\ RunPage(uploaded_file, text_col,
                      [json_editor EXCEPT !.contents = t], FALSE, TRUE, FALSE)
    /\ last_click' = "apply"
    /\ UNCHANGED <<classifyVars, tableVars, editorVars, appVars,
                   dictionaries, pc, uploaded_file, text_col>>

\* "Run classifier" is clicked.
ClickRun ==
    /\ Drawn("editor")
    /\ RunPage(uploaded_file, text_col, json_editor, FALSE, FALSE, TRUE)
    /\ last_click' = "run"
    /\ UNCHANGED <<classifyVars, tableVars, editorVars, appVars,
                   dictionaries, pc, uploaded_file, text_col, applied_json>>

NextPage == Upload \/ ClickConfirm \/ EditJson \/ ClickApply \/ ClickRun

SpecPage == InitPage /\ [][NextPage]_vars

(***************************************************************************)
(* Properties of the page.                                                 *)
(***************************************************************************)
\* C10: with a CSV uploaded, its column confirmed and a valid dictionary D
\* applied, the run a click on "Run classifier" starts reaches the
\* classification step and computes "tactics" with D.
C10_RunClassifiesWithAppliedDictionary ==
    (/\ last_click = "run"
     /\ applied_json # <<>>
     /\ apply_changes(applied_json).outcome = "updated") =>
        /\ run_result.reached = "classified"
        /\ DictItems(run_result.dictionaries) =
               DictItems(apply_changes(applied_json).dictionaries)

\* No run of the script gets past line 58 unless "Confirm column" started
\* it, and in such a run neither other button reads True.
C10_NothingIsEverClassified ==
    /\ run_result.reached \in {"info", "form", "editor"}
    /\ run_result.reached = "editor" =>
           DictItems(run_result.dictionaries) =
               DictItems(PAGE_DEFAULT_DICTIONARIES)

====
